---- MODULE Spec2Model ----
(***************************************************************************)
(* A model of ewig's terminal front end (src/ewig/tui.cpp): the key        *)
(* sequence dispatcher (key_handler), the line renderer                    *)
(* (display_line_fill), the text/selection/cursor drawing (draw_text,      *)
(* draw_text_cursor, draw) and the process life cycle (main, tui::tui,     *)
(* tui::run, tui::~tui).                                                   *)
(*                                                                         *)
(* Three specifications share the variables:                               *)
(*   Spec      the process: main, the tui constructor, the event loop      *)
(*   SpecLine  display_line_fill applied to bounded lines and windows      *)
(*   SpecDraw  draw_text and draw_text_cursor applied to bounded buffers   *)
(***************************************************************************)
EXTENDS Integers, Sequences, FiniteSets, TLC

VARIABLES
    pc,         \* position of the process in main / tui::tui / tui::run
    argc,       \* main's argc
    state,      \* tui::state, the application state
    seq_,       \* key_handler::seq_, the pending key sequence
    input,      \* the locals (res, key) of tui::run, last filled by get_wch
    new_state,  \* the optional<app_state> returned by the last handle_key
    out,        \* what the last handle_key evaluated: commands, inserts, notices
    prev_seq,   \* seq_ as it was when the last handle_key was entered
    term,       \* the terminal device: "none", "acquired" (initscr), "released" (endwin)
    nread,      \* number of get_wch calls made so far
    ndraw,      \* number of draw calls completed so far
    shown,      \* what the last draw put on the screen
    run_result, \* the value returned by tui::run
    exit_code,  \* the exit status of the process
    usage,      \* whether the usage message was written to std::cerr
    ln, first_col, num_col, str,   \* display_line_fill's arguments and result
    buf, size, rows, curs          \* draw_text / draw_text_cursor: buffer, editor size, output

lifeVars == <<pc, argc, state, seq_, input, new_state, out, prev_seq, term,
              nread, ndraw, shown, run_result, exit_code, usage>>
lineVars == <<ln, first_col, num_col, str>>
drawVars == <<buf, size, rows, curs>>
vars == <<lifeVars, lineVars, drawVars>>

(***************************************************************************)
(* Bounds of the model.                                                    *)
(***************************************************************************)
MaxKeys == 3
MaxLineLen == 4
MaxFirstCol == 9
MaxNumCol == 10
MaxLines == 5
MaxScrollRow == 3
MaxScrollCol == 1
MaxTermRows == 5
MaxTermCols == 3

(***************************************************************************)
(* Terminal driver constants (ncurses) and key codes (ewig/keys.hpp).      *)
(***************************************************************************)
OK == 0
ERR == -1
KEY_CODE_YES == 256

KeyCode(res, key) == [res |-> res, key |-> key]

\* key::up, key::down, ...: a special key is read with status KEY_CODE_YES
special(code) == <<KeyCode(KEY_CODE_YES, code)>>
key_up        == special(259)
key_down      == special(258)
key_left      == special(260)
key_right     == special(261)
key_home      == special(262)
key_backspace == special(263)
key_delete_   == special(330)
key_page_down == special(338)
key_page_up   == special(339)
key_end       == special(360)
key_f1        == special(265)

\* 'A' is 65, '@' is 64: key::ctrl(c) is the control character c - '@'
ctrl(c) == <<KeyCode(OK, c - 64)>>
\* key::alt(c) is escape followed by the character
alt(c) == <<KeyCode(OK, 27), KeyCode(OK, c)>>

RECURSIVE seq(_)
\* key::seq(k1, k2, ...): the concatenation of its arguments
seq(ks) == IF ks = <<>> THEN <<>> ELSE Head(ks) \o seq(Tail(ks))

Binding(chord, cmd) == [chord |-> chord, cmd |-> cmd]

key_map_emacs_bindings ==
    << Binding(seq(<<key_up>>),        "move-up"),
       Binding(seq(<<key_down>>),      "move-down"),
       Binding(seq(<<key_left>>),      "move-left"),
       Binding(seq(<<key_right>>),     "move-right"),
       Binding(seq(<<key_page_down>>), "page-down"),
       Binding(seq(<<key_page_up>>),   "page-up"),
       Binding(seq(<<key_backspace>>), "delete-char"),
       Binding(seq(<<key_delete_>>),   "delete-char-right"),
       Binding(seq(<<key_home>>),      "move-beginning-of-line"),
       Binding(seq(<<ctrl(65)>>),      "move-beginning-of-line"),
       Binding(seq(<<key_end>>),       "move-end-of-line"),
       Binding(seq(<<ctrl(69)>>),      "move-end-of-line"),
       Binding(seq(<<ctrl(73)>>),      "insert-tab"),
       Binding(seq(<<ctrl(74)>>),      "new-line"),
       Binding(seq(<<ctrl(75)>>),      "kill-line"),
       Binding(seq(<<ctrl(87)>>),      "cut"),
       Binding(seq(<<ctrl(89)>>),      "paste"),
       Binding(seq(<<ctrl(64)>>),      "start-selection"),
       Binding(seq(<<ctrl(88), ctrl(67)>>), "quit"),
       Binding(seq(<<alt(119)>>),      "copy") >>

IsPrefix(p, s) == Len(p) <= Len(s) /\ SubSeq(s, 1, Len(p)) = p
IsStrictPrefix(p, s) == Len(p) < Len(s) /\ IsPrefix(p, s)

\* make_key_map: every chord maps to its command (the last binding of a chord
\* wins); every non-empty strict prefix of a chord that is not itself bound
\* maps to the empty command
make_key_map(bindings) ==
    LET idx     == 1..Len(bindings)
        chords  == {bindings[i].chord : i \in idx}
        prefixes == UNION {{SubSeq(c, 1, n) : n \in 1..Len(c)} : c \in chords}
        Last(c) == CHOOSE i \in idx : /\ bindings[i].chord = c
                                      /\ \A j \in idx : bindings[j].chord = c => j <= i
    IN [s \in chords \cup prefixes |->
            IF s \in chords THEN bindings[Last(s)].cmd ELSE ""]

key_map_emacs == make_key_map(key_map_emacs_bindings)

(***************************************************************************)
(* The application state and the external command subsystem.  The buffer   *)
(* is owned by the document subsystem: it is kept as the number of         *)
(* evaluations applied to the loaded document.                             *)
(***************************************************************************)
app_state(buffer, messages) == [buffer |-> buffer, messages |-> messages]

\* load_file: the state of a freshly loaded document
load_file == app_state(0, <<>>)

message(content, key) == [content |-> content, key |-> key]

\* put_message: appends a notice to the notice log
put_message(st, msg) == [st EXCEPT !.messages = Append(@, msg)]

Some(st) == [some |-> TRUE, val |-> st]
None == [some |-> FALSE, val |-> app_state(-1, <<>>)]

\* eval_command: "quit" yields no state, every other command a new state
eval_command(st, cmd) ==
    IF cmd = "quit" THEN None ELSE Some([st EXCEPT !.buffer = @ + 1])

\* eval_insert_char: a new state with the character inserted
eval_insert_char(st, key) == [st EXCEPT !.buffer = @ + 1]

Emit(kind, name, key) == [kind |-> kind, name |-> name, key |-> key]

(***************************************************************************)
(* key_handler::handle_key                                                 *)
(***************************************************************************)
\* std::iscntrl(int) is defined for the values of unsigned char (and EOF):
\* there the control characters are 0..31 and 127.  For any other value the
\* behaviour is undefined, and either answer may come back.
iscntrl_outcomes(key) ==
    IF key >= -1 /\ key <= 255
    THEN {(key >= 0 /\ key < 32) \/ key = 127}
    ELSE BOOLEAN

Result(s, ret, o) == [seq |-> s, ret |-> ret, out |-> o]

\* handle_matched without line 231, seq_.clear()
handle_matched_noclear(st, s, cmd) ==
    Result(s, eval_command(st, cmd), <<Emit("command", cmd, 0)>>)

\* lines 230-232: the sequence s is bound to a command
handle_matched(st, s, cmd) ==
    Result(<<>>, eval_command(st, cmd), <<Emit("command", cmd, 0)>>)

\* handle_pending clearing seq_ as the other branches do
handle_pending_clear(st, s) ==
    Result(<<>>, Some(st), <<>>)

\* handle_pending returning an empty optional instead of the state
handle_pending_empty(st, s) ==
    Result(s, None, <<>>)

\* lines 233-235: the sequence is a prefix of a chord
handle_pending(st, s) ==
    Result(s, Some(st), <<>>)

\* lines 239-241: a single printable character
handle_insert(st, key) ==
    Result(<<>>,
           Some(eval_insert_char(put_message(st, message("adding character: ", key)), key)),
           <<Emit("notice", "adding character: ", key), Emit("insert", "", key)>>)

\* lines 242-244: anything else that is not in the map
handle_unbound(st) ==
    Result(<<>>,
           Some(put_message(st, message("unbound key sequence", 0))),
           <<Emit("notice", "unbound key sequence", 0)>>)

\* handle_not_found without line 237, seq_.clear()
handle_not_found_noclear(st, s, res, key, cntrl) ==
    IF Len(s) = 1 /\ res = OK /\ ~cntrl
    THEN [handle_insert(st, key) EXCEPT !.seq = s]
    ELSE [handle_unbound(st) EXCEPT !.seq = s]

\* handle_not_found without the is_single_char test of line 239
handle_not_found_nosingle(st, s, res, key, cntrl) ==
    IF res = OK /\ ~cntrl THEN handle_insert(st, key) ELSE handle_unbound(st)

\* handle_not_found without the std::iscntrl test of line 239
handle_not_found_nocntrl(st, s, res, key, cntrl) ==
    IF Len(s) = 1 /\ res = OK THEN handle_insert(st, key) ELSE handle_unbound(st)

\* lines 236-245: the sequence is not in the map
handle_not_found(st, s, res, key, cntrl) ==
    LET is_single_char == Len(s) = 1
    IN  IF is_single_char /\ res = OK /\ ~cntrl
        THEN handle_insert(st, key)
        ELSE handle_unbound(st)

\* handle_key, with `cntrl` the answer of std::iscntrl(key)
handle_key(map_, pending, st, res, key, cntrl) ==
    LET s == Append(pending, KeyCode(res, key))
    IN  IF s \in DOMAIN map_
        THEN IF map_[s] # ""
             THEN handle_matched(st, s, map_[s])
             ELSE handle_pending(st, s)
        ELSE handle_not_found(st, s, res, key, cntrl)

(***************************************************************************)
(* The key events get_wch can deliver: every event of a bound chord, and   *)
(* 'a' (printable, unbound), ctrl-B (control, unbound), F1 (special,       *)
(* unbound) and the euro sign U+20AC (printable, beyond unsigned char).    *)
(***************************************************************************)
BoundEvents == UNION {{c[i] : i \in 1..Len(c)} : c \in DOMAIN key_map_emacs}
Keys == BoundEvents \cup
        {KeyCode(OK, 97), KeyCode(OK, 2), key_f1[1], KeyCode(OK, 8364)}

coord(row, col) == [row |-> row, col |-> col]

\* lines 73-79: two rows are kept for the mode line and the message
get_editor_size(maxrow, maxcol) == coord(maxrow - 2, maxcol)

\* draw with line 207 showing messages.front() instead of messages.back()
draw_front_message(app, maxrow, maxcol) ==
    LET sz == get_editor_size(maxrow, maxcol)
    IN  [text          |-> app.buffer,
         mode_line_row |-> sz.row,
         message_row   |-> IF app.messages # <<>> THEN <<sz.row + 1>> ELSE <<>>,
         message       |-> IF app.messages # <<>>
                           THEN <<app.messages[1]>>
                           ELSE <<>>]

(***************************************************************************)
(* draw (lines 194-212) as the event loop sees it, on a terminal of maxrow *)
(* by maxcol cells: the text of the buffer, the row the mode line is       *)
(* moved to (line 202) and, if there is a notice, the row the message is   *)
(* moved to (line 206) and the notice drawn there (line 207).              *)
(***************************************************************************)
draw(app, maxrow, maxcol) ==
    LET sz == get_editor_size(maxrow, maxcol)
    IN  [text          |-> app.buffer,
         mode_line_row |-> sz.row,
         message_row   |-> IF app.messages # <<>> THEN <<sz.row + 1>> ELSE <<>>,
         message       |-> IF app.messages # <<>>
                           THEN <<app.messages[Len(app.messages)]>>
                           ELSE <<>>]

Blank == [text |-> -1, mode_line_row |-> -1, message_row |-> <<>>, message |-> <<>>]

(***************************************************************************)
(* The process: main, tui::tui, tui::run, tui::~tui                        *)
(***************************************************************************)
LineIdle == /\ ln = <<>> /\ first_col = 0 /\ num_col = 0 /\ str = <<>>
DrawIdle == /\ buf = <<>> /\ size = <<>> /\ rows = <<>> /\ curs = <<>>

LifeIdle ==
    /\ argc = 0 /\ state = None.val /\ seq_ = <<>>
    /\ input = KeyCode(OK, 0) /\ new_state = None /\ out = <<>>
    /\ prev_seq = <<>> /\ term = "none" /\ nread = 0 /\ ndraw = 0
    /\ shown = Blank /\ run_result = -1 /\ exit_code = -1 /\ usage = FALSE

Init ==
    /\ pc = "main"
    /\ argc \in 1..3
    /\ state = None.val
    /\ seq_ = <<>>
    /\ input = KeyCode(OK, 0)
    /\ new_state = None
    /\ out = <<>>
    /\ prev_seq = <<>>
    /\ term = "none"
    /\ nread = 0
    /\ ndraw = 0
    /\ shown = Blank
    /\ run_result = -1
    /\ exit_code = -1
    /\ usage = FALSE
    /\ LineIdle
    /\ DrawIdle

\* lines 287-290 returning 0 instead of 1
MainUsage_return0 ==
    /\ pc = "main"
    /\ argc # 2
    /\ usage' = TRUE
    /\ exit_code' = 0
    /\ pc' = "exited"
    /\ UNCHANGED <<argc, state, seq_, input, new_state, out, prev_seq, term,
                   nread, ndraw, shown, run_result>>

\* lines 287-290: argc != 2
MainUsage ==
    /\ pc = "main"
    /\ argc # 2
    /\ usage' = TRUE
    /\ exit_code' = 1
    /\ pc' = "exited"
    /\ UNCHANGED <<argc, state, seq_, input, new_state, out, prev_seq, term,
                   nread, ndraw, shown, run_result>>

\* line 292: tui editor{argv[1]}
MainStart ==
    /\ pc = "main"
    /\ argc = 2
    /\ pc' = "tui_load"
    /\ UNCHANGED <<argc, state, seq_, input, new_state, out, prev_seq, term,
                   nread, ndraw, shown, run_result, exit_code, usage>>

\* line 252: state{load_file(file_name)}
TuiLoad ==
    /\ pc = "tui_load"
    /\ state' = load_file
    /\ pc' = "tui_init"
    /\ UNCHANGED <<argc, seq_, input, new_state, out, prev_seq, term,
                   nread, ndraw, shown, run_result, exit_code, usage>>

\* load_file failing after initscr, as if the member initializer of line 252
\* came after line 254
TuiLoadFail_after_initscr ==
    /\ pc = "tui_load"
    /\ term' = "acquired"
    /\ exit_code' = 134
    /\ pc' = "exited"
    /\ UNCHANGED <<argc, state, seq_, input, new_state, out, prev_seq,
                   nread, ndraw, shown, run_result, usage>>

\* line 252: load_file fails; nothing in main catches it
TuiLoadFail ==
    /\ pc = "tui_load"
    /\ exit_code' = 134
    /\ pc' = "exited"
    /\ UNCHANGED <<argc, state, seq_, input, new_state, out, prev_seq, term,
                   nread, ndraw, shown, run_result, usage>>

\* lines 254-261: initscr() ... init_pair()
TuiInit ==
    /\ pc = "tui_init"
    /\ term' = "acquired"
    /\ pc' = "tui_draw"
    /\ UNCHANGED <<argc, state, seq_, input, new_state, out, prev_seq,
                   nread, ndraw, shown, run_result, exit_code, usage>>

\* line 262: draw(state); then line 293 enters run, lines 272-273
TuiDraw ==
    /\ pc = "tui_draw"
    /\ \E maxrow \in 1..MaxTermRows, maxcol \in 1..MaxTermCols :
           shown' = draw(state, maxrow, maxcol)
    /\ ndraw' = ndraw + 1
    /\ seq_' = <<>>
    /\ pc' = "run_get_wch"
    /\ UNCHANGED <<argc, state, input, new_state, out, prev_seq, term,
                   nread, run_result, exit_code, usage>>

\* line 262: draw fails inside the constructor: the object was never
\* constructed, so ~tui does not run, and nothing in main catches it
TuiDrawFail ==
    /\ pc = "tui_draw"
    /\ exit_code' = 134
    /\ pc' = "exited"
    /\ UNCHANGED <<argc, state, seq_, input, new_state, out, prev_seq, term,
                   nread, ndraw, shown, run_result, usage>>

\* lines 274 and 278: res = get_wch(&key); on ERR key is left as it was
RunGetWch ==
    /\ pc = "run_get_wch"
    /\ nread < MaxKeys
    /\ \/ input' \in Keys
       \/ input' = KeyCode(ERR, input.key)
    /\ nread' = nread + 1
    /\ pc' = "run_handle_key"
    /\ UNCHANGED <<argc, state, seq_, new_state, out, prev_seq, term,
                   ndraw, shown, run_result, exit_code, usage>>

\* line 275: new_state = input.handle_key(state, res, key), and the loop test
RunHandleKey ==
    /\ pc = "run_handle_key"
    /\ \E cntrl \in iscntrl_outcomes(input.key) :
         LET r == handle_key(key_map_emacs, seq_, state, input.res, input.key, cntrl)
         IN  /\ seq_' = r.seq
             /\ new_state' = r.ret
             /\ out' = r.out
             /\ pc' = IF r.ret.some THEN "run_assign" ELSE "run_return"
    /\ prev_seq' = seq_
    /\ UNCHANGED <<argc, state, input, term, nread, ndraw, shown,
                   run_result, exit_code, usage>>

\* an exception leaves the event loop: nothing in main catches it, so
\* std::terminate is called; whether the stack is unwound first (and ~tui
\* runs) is implementation-defined
Terminate ==
    /\ \E unwound \in BOOLEAN :
         term' = IF unwound THEN "released" ELSE term
    /\ exit_code' = 134
    /\ pc' = "exited"
    /\ UNCHANGED <<argc, state, seq_, input, new_state, out, prev_seq,
                   nread, ndraw, shown, run_result, usage>>

\* line 275: the command evaluated by handle_key fails
RunHandleKeyFail ==
    /\ pc = "run_handle_key"
    /\ Terminate

\* the loop body without line 277: the next key is read with no redraw
RunAssign_no_draw ==
    /\ pc = "run_assign"
    /\ state' = new_state.val
    /\ pc' = "run_get_wch"
    /\ UNCHANGED <<argc, seq_, input, new_state, out, prev_seq, term,
                   nread, ndraw, shown, run_result, exit_code, usage>>

\* line 276: state = *new_state
RunAssign ==
    /\ pc = "run_assign"
    /\ state' = new_state.val
    /\ pc' = "run_draw"
    /\ UNCHANGED <<argc, seq_, input, new_state, out, prev_seq, term,
                   nread, ndraw, shown, run_result, exit_code, usage>>

\* line 277: draw(state)
RunDraw ==
    /\ pc = "run_draw"
    /\ \E maxrow \in 1..MaxTermRows, maxcol \in 1..MaxTermCols :
           shown' = draw(state, maxrow, maxcol)
    /\ ndraw' = ndraw + 1
    /\ pc' = "run_get_wch"
    /\ UNCHANGED <<argc, state, seq_, input, new_state, out, prev_seq, term,
                   nread, run_result, exit_code, usage>>

\* line 277: draw fails
RunDrawFail ==
    /\ pc = "run_draw"
    /\ Terminate

\* line 280: return 0
RunReturn ==
    /\ pc = "run_return"
    /\ run_result' = 0
    /\ pc' = "main_return"
    /\ UNCHANGED <<argc, state, seq_, input, new_state, out, prev_seq, term,
                   nread, ndraw, shown, exit_code, usage>>

\* line 295: return 0; leaving main destroys editor: ~tui, lines 265-268
MainReturn ==
    /\ pc = "main_return"
    /\ term' = "released"
    /\ exit_code' = 0
    /\ pc' = "exited"
    /\ UNCHANGED <<argc, state, seq_, input, new_state, out, prev_seq,
                   nread, ndraw, shown, run_result, usage>>

Next ==
    \/ (MainUsage /\ UNCHANGED <<lineVars, drawVars>>)
    \/ (MainStart /\ UNCHANGED <<lineVars, drawVars>>)
    \/ (TuiLoad /\ UNCHANGED <<lineVars, drawVars>>)
    \/ (TuiLoadFail /\ UNCHANGED <<lineVars, drawVars>>)
    \/ (TuiInit /\ UNCHANGED <<lineVars, drawVars>>)
    \/ (TuiDraw /\ UNCHANGED <<lineVars, drawVars>>)
    \/ (TuiDrawFail /\ UNCHANGED <<lineVars, drawVars>>)
    \/ (RunGetWch /\ UNCHANGED <<lineVars, drawVars>>)
    \/ (RunHandleKey /\ UNCHANGED <<lineVars, drawVars>>)
    \/ (RunHandleKeyFail /\ UNCHANGED <<lineVars, drawVars>>)
    \/ (RunAssign /\ UNCHANGED <<lineVars, drawVars>>)
    \/ (RunDraw /\ UNCHANGED <<lineVars, drawVars>>)
    \/ (RunDrawFail /\ UNCHANGED <<lineVars, drawVars>>)
    \/ (RunReturn /\ UNCHANGED <<lineVars, drawVars>>)
    \/ (MainReturn /\ UNCHANGED <<lineVars, drawVars>>)

Spec == Init /\ [][Next]_vars

(***************************************************************************)
(* display_line_fill (lines 84-104)                                        *)
(***************************************************************************)
tab_width == 8
TAB == "\t"
Chars == {"a", "b", TAB}

Min(a, b) == IF a <= b THEN a ELSE b
Max(a, b) == IF a >= b THEN a ELSE b

\* std::fill_n(back_inserter(str), n, ' '): appends nothing when n <= 0
fill_n(s, n) == s \o [i \in 1..n |-> " "]

\* line 93
next_tab_col(cur_col) == cur_col + tab_width - (cur_col % tab_width)

\* to_fill measured from cur_col, whatever the first column is
tab_to_fill_from_cur(cur_col, fcol, ncol) ==
    Min(next_tab_col(cur_col), fcol + ncol) - cur_col

\* lines 94-95
tab_to_fill(cur_col, fcol, ncol) ==
    Min(next_tab_col(cur_col), fcol + ncol) - Max(cur_col, fcol)

\* the test of line 90 made one cell too late
line_is_full_late(ncol, s) == ncol + 1 = Len(s)

\* line 90: num_col == (index)str.size()
line_is_full(ncol, s) == ncol = Len(s)

RECURSIVE display_line_loop(_, _, _, _, _, _)
\* lines 89-103: the loop, at character i of the line with cur_col and str
display_line_loop(line, i, cur_col, fcol, ncol, s) ==
    IF i > Len(line) THEN s
    ELSE IF line_is_full(ncol, s) THEN s
    ELSE IF line[i] = TAB
         THEN display_line_loop(line, i + 1, next_tab_col(cur_col), fcol, ncol,
                                fill_n(s, tab_to_fill(cur_col, fcol, ncol)))
    ELSE IF cur_col >= fcol
         THEN display_line_loop(line, i + 1, cur_col + 1, fcol, ncol,
                                Append(s, line[i]))
    ELSE display_line_loop(line, i + 1, cur_col + 1, fcol, ncol, s)

\* display_line_fill(ln, first_col, num_col, str): the contents of str after
display_line_fill(line, fcol, ncol, s) ==
    display_line_loop(line, 1, 0, fcol, ncol, s)

RECURSIVE SeqsUpTo(_, _)
SeqsUpTo(S, n) ==
    IF n = 0 THEN {<<>>}
    ELSE LET shorter == SeqsUpTo(S, n - 1)
         IN  shorter \cup {Append(q, c) : q \in shorter, c \in S}

Lines == SeqsUpTo(Chars, MaxLineLen)

InitLine ==
    /\ pc = "fill"
    /\ LifeIdle
    /\ DrawIdle
    /\ ln \in Lines
    /\ first_col \in 0..MaxFirstCol
    /\ num_col \in 0..MaxNumCol
    /\ str = <<>>

\* a call display_line_fill(ln, first_col, num_col, str) on a cleared str,
\* as draw_text makes it (lines 127-128)
Fill ==
    /\ pc = "fill"
    /\ pc' = "filled"
    /\ str' = display_line_fill(ln, first_col, num_col, <<>>)
    /\ UNCHANGED <<argc, state, seq_, input, new_state, out, prev_seq, term,
                   nread, ndraw, shown, run_result, exit_code, usage>>
    /\ UNCHANGED <<ln, first_col, num_col>>

NextLine == Fill /\ UNCHANGED drawVars

SpecLine == InitLine /\ [][NextLine]_vars

(***************************************************************************)
(* The file buffer (ewig/buffer.hpp) and the drawing of it                 *)
(***************************************************************************)
file_buffer(content, scroll, cursor, selection_start) ==
    [content |-> content, scroll |-> scroll, cursor |-> cursor,
     selection_start |-> selection_start]

\* row-major order of coordinates
CoordLeq(a, b) == a.row < b.row \/ (a.row = b.row /\ a.col <= b.col)

\* selected_region: the cursor and the selection start, the smaller first
selected_region(b) ==
    LET s == b.selection_start[1]
    IN  IF CoordLeq(b.cursor, s) THEN <<b.cursor, s>> ELSE <<s, b.cursor>>

RECURSIVE expanded_col(_, _)
\* the display column of character index n of a line, tabs expanded
expanded_col(line, n) ==
    IF n = 0 THEN 0
    ELSE LET before == expanded_col(line, n - 1)
         IN  IF line[n] = TAB THEN next_tab_col(before) ELSE before + 1

\* actual_display_cursor: the cursor in expanded-column space
actual_display_cursor(b) ==
    IF b.cursor.row < Len(b.content)
    THEN coord(b.cursor.row,
               expanded_col(b.content[b.cursor.row + 1],
                            Min(b.cursor.col, Len(b.content[b.cursor.row + 1]))))
    ELSE coord(b.cursor.row, 0)

\* one call that writes to the screen: the cells written, whether the
\* selection colour was on, and what was written ("text" of the rendered
\* row, an "hline" of blanks to the right edge, or "garbage" read from
\* outside the rendered row)
Write(hl, kind, cells) == [hl |-> hl, kind |-> kind, cells |-> cells]

\* at most n elements of q; all of q when n is negative
Take(q, n) == IF n < 0 THEN q ELSE SubSeq(q, 1, Min(n, Len(q)))

\* addnwstr(str.c_str() + off, n) with the selection colour on or off.  The
\* string ends at its terminator, str.c_str()[str.size()]; a pointer beyond
\* it reads whatever memory follows, here the cells g.
addnwstr(hl, s, off, n, g) ==
    IF off > Len(s)
    THEN Write(hl, "garbage", Take(g, n))
    ELSE Write(hl, "text", Take(SubSeq(s, off + 1, Len(s)), n))

\* addwstr(str.c_str())
addwstr(hl, s) == Write(hl, "text", s)

\* hline(' ', size.col)
hline(hl) == Write(hl, "hline", <<>>)

\* lines 132-136: the selection starts and ends on this row
draw_row_single(s, starts, ends, g) ==
    << addnwstr(FALSE, s, 0, starts.col, g),
       addnwstr(TRUE, s, starts.col, ends.col - starts.col, g),
       addnwstr(FALSE, s, ends.col, Len(s) - ends.col, g) >>

\* lines 138-142: the selection starts on this row
draw_row_first(s, starts, g) ==
    << addnwstr(FALSE, s, 0, starts.col, g),
       addnwstr(TRUE, s, starts.col, Len(s) - starts.col, g),
       hline(TRUE) >>

\* lines 144-147: the selection ends on this row
draw_row_last(s, ends, g) ==
    << addnwstr(TRUE, s, 0, ends.col, g),
       addnwstr(FALSE, s, ends.col, Len(s) - ends.col, g) >>

\* lines 149-152: the row is inside the selection
draw_row_inside(s) == << addwstr(TRUE, s), hline(TRUE) >>

\* lines 154 and 157: no highlight on this row
draw_row_plain(s) == << addwstr(FALSE, s) >>

\* lines 130-158: the writes of one row
draw_row(s, row, has_selection, starts, ends, g) ==
    IF has_selection
    THEN IF starts.row = ends.row /\ starts.row = row
              THEN draw_row_single(s, starts, ends, g)
         ELSE IF starts.row = row
              THEN draw_row_first(s, starts, g)
         ELSE IF ends.row = row
              THEN draw_row_last(s, ends, g)
         ELSE IF starts.row < row /\ ends.row > row
              THEN draw_row_inside(s)
         ELSE draw_row_plain(s)
    ELSE draw_row_plain(s)

\* lines 113-116: the indices of first_ln and last_ln
first_ln(b) == Min(b.scroll.row, Len(b.content))
last_ln(b, sz) == Min(sz.row + b.scroll.row, Len(b.content))

\* lines 118-124
translated(b, c) == coord(c.row - b.scroll.row, c.col)

\* lines 106-161: draw_text with the terminal cursor at (y, x) on entry.
\* getyx(stdscr, col, row) stores y in col and x in row.  The result has a
\* record per line drawn: its screen row, its rendered cells, its writes.
draw_text(b, sz, y, x, g) ==
    LET col == y
        row0 == x
        has_selection == b.selection_start # <<>>
        region == IF has_selection THEN selected_region(b)
                  ELSE <<coord(0, 0), coord(0, 0)>>
        starts == translated(b, region[1])
        ends == translated(b, region[2])
        first == first_ln(b)
        last == last_ln(b, sz)
    IN  [k \in 1..(last - first) |->
            LET s == display_line_fill(b.content[first + k], b.scroll.col + col,
                                       sz.col, <<>>)
                row == row0 + k - 1
            IN  [row |-> row, str |-> s,
                 writes |-> draw_row(s, row, has_selection, starts, ends, g)]]

\* line 187 moves the cursor, without testing where to
cursor_shown_always(cursor, b, window_size) == TRUE

\* lines 188-191: the argument of curs_set
cursor_shown(cursor, b, window_size) ==
    /\ cursor.col >= b.scroll.col
    /\ cursor.row >= b.scroll.row
    /\ cursor.col < b.scroll.col + window_size.col
    /\ cursor.row < b.scroll.row + window_size.row

\* lines 184-192: the arguments of move and of curs_set
draw_text_cursor(b, window_size) ==
    LET cursor == actual_display_cursor(b)
    IN  [row |-> cursor.row - b.scroll.row,
         col |-> cursor.col - b.scroll.col,
         visible |-> cursor_shown(cursor, b, window_size)]

(***************************************************************************)
(* The buffers drawn: the first n lines of a text whose lines repeat       *)
(* "ab", tab "b", "" and "a", any scroll offset, any cursor and selection  *)
(* start on a character position of the text, on any small terminal.       *)
(***************************************************************************)
TextLine(i) ==
    CASE i % 4 = 0 -> <<"a", "b">>
      [] i % 4 = 1 -> <<TAB, "b">>
      [] i % 4 = 2 -> <<>>
      [] OTHER     -> <<"a">>

Text(n) == [i \in 1..n |-> TextLine(i - 1)]

Positions(content) ==
    IF content = <<>> THEN {coord(0, 0)}
    ELSE UNION {{coord(r, c) : c \in 0..Len(content[r + 1])} :
                    r \in 0..(Len(content) - 1)}

Buffers ==
    UNION {{file_buffer(Text(n), coord(sr, sc), cur, sel) :
                sr \in 0..MaxScrollRow, sc \in 0..MaxScrollCol,
                cur \in Positions(Text(n)),
                sel \in {<<>>} \cup {<<p>> : p \in Positions(Text(n))}} :
           n \in 0..MaxLines}

\* what a read outside the rendered row may find before a terminator
Garbage == {<<>>, <<"?">>}

InitDraw ==
    /\ pc = "draw_text"
    /\ LifeIdle
    /\ LineIdle
    /\ buf \in Buffers
    /\ size \in {get_editor_size(r, c) : r \in 1..MaxTermRows, c \in 1..MaxTermCols}
    /\ rows = <<>>
    /\ curs = [row |-> 0, col |-> 0, visible |-> TRUE]

\* lines 199-200: move(0, 0); draw_text(app.buffer, size).  A last_ln before
\* first_ln is no range for immer::for_each: nothing may be drawn, or the
\* process may fail.
DrawText ==
    /\ pc = "draw_text"
    /\ IF last_ln(buf, size) < first_ln(buf)
       THEN /\ rows' = <<>>
            /\ pc' \in {"draw_text_cursor", "failed"}
       ELSE /\ \E g \in Garbage : rows' = draw_text(buf, size, 0, 0, g)
            /\ pc' = "draw_text_cursor"
    /\ UNCHANGED <<argc, state, seq_, input, new_state, out, prev_seq, term,
                   nread, ndraw, shown, run_result, exit_code, usage>>
    /\ UNCHANGED <<buf, size, curs>>

\* line 210: draw_text_cursor(app.buffer, size)
DrawTextCursor ==
    /\ pc = "draw_text_cursor"
    /\ curs' = draw_text_cursor(buf, size)
    /\ pc' = "drawn"
    /\ UNCHANGED <<argc, state, seq_, input, new_state, out, prev_seq, term,
                   nread, ndraw, shown, run_result, exit_code, usage>>
    /\ UNCHANGED <<buf, size, rows>>

NextDraw ==
    \/ (DrawText /\ UNCHANGED lineVars)
    \/ (DrawTextCursor /\ UNCHANGED lineVars)

SpecDraw == InitDraw /\ [][NextDraw]_vars

(***************************************************************************)
(* Vocabulary of the properties of the dispatcher, read off the binding    *)
(* list itself (not off the map built from it).                            *)
(***************************************************************************)
Bindings == {key_map_emacs_bindings[i] : i \in 1..Len(key_map_emacs_bindings)}
BoundChords == {b.chord : b \in {x \in Bindings : x.cmd # ""}}
MultiKeyChords == {c \in BoundChords : Len(c) > 1}
IsBound(s) == s \in BoundChords
IsChordPrefix(s) == s # <<>> /\ \E c \in BoundChords : IsStrictPrefix(s, c)
IsUnbound(s) == ~IsBound(s) /\ ~IsChordPrefix(s)
IsControlCode(key) == key \in 0..31 \/ key = 127

\* the process has just returned from handle_key: state is still the state
\* passed in, new_state the result, prev_seq and seq_ the pending sequence
\* before and after, input the event, out what was evaluated
Handled == pc \in {"run_assign", "run_return"}
fed == Append(prev_seq, input)

IsCommand(e) == e.kind = "command"
IsInsert(e) == e.kind = "insert"
IsNotice(e) == e.kind = "notice"
IsUnboundNotice(e) == e.kind = "notice" /\ e.name = "unbound key sequence"
commands == SelectSeq(out, IsCommand)
inserts == SelectSeq(out, IsInsert)
notices == SelectSeq(out, IsNotice)
unbound_notices == SelectSeq(out, IsUnboundNotice)

(***************************************************************************)
(* C1: for every chord c bound to a non-empty command, feeding c's events  *)
(* one at a time from an empty pending sequence evaluates nothing (no      *)
(* command, insert or notice) before the last event, evaluates exactly     *)
(* one command, c's bound name, on the last event, and leaves the pending  *)
(* sequence empty.  Stated per step: when the pending sequence held the    *)
(* first k-1 events of c and the k-th is handled.                          *)
(***************************************************************************)
C1_ChordYieldsItsCommand ==
    \A b \in Bindings : \A k \in 1..Len(b.chord) :
        (Handled /\ b.cmd # "" /\ prev_seq = SubSeq(b.chord, 1, k - 1)
                 /\ input = b.chord[k])
        => IF k < Len(b.chord)
           THEN out = <<>> /\ seq_ = SubSeq(b.chord, 1, k)
           ELSE /\ out = <<Emit("command", b.cmd, 0)>>
                /\ seq_ = <<>>

C1_Witness ==
    /\ Handled
    /\ prev_seq = ctrl(88)
    /\ input = ctrl(67)[1]
    /\ out = <<Emit("command", "quit", 0)>>
    /\ seq_ = <<>>

(***************************************************************************)
(* C2: from an empty pending sequence, a strict non-empty prefix of a      *)
(* bound multi-key chord followed by an event that makes the sequence      *)
(* neither bound nor a prefix of a bound chord yields exactly one          *)
(* "unbound key sequence" notice, no command and no insert, and leaves     *)
(* the pending sequence empty.                                             *)
(***************************************************************************)
C2_BrokenChordIsReported ==
    (/\ Handled
     /\ prev_seq # <<>>
     /\ \E c \in MultiKeyChords : IsStrictPrefix(prev_seq, c)
     /\ IsUnbound(fed))
    => /\ out = <<Emit("notice", "unbound key sequence", 0)>>
       /\ seq_ = <<>>

C2_Witness ==
    /\ Handled
    /\ prev_seq = ctrl(88)
    /\ input = KeyCode(OK, 97)
    /\ Len(unbound_notices) = 1
    /\ commands = <<>> /\ inserts = <<>>
    /\ seq_ = <<>>

(***************************************************************************)
(* C3: with an empty pending sequence, one key event with status OK whose  *)
(* code is not a control character and which is not in the binding table   *)
(* yields exactly one insert of that same character, no command, and       *)
(* leaves the pending sequence empty.                                      *)
(***************************************************************************)
C3_PrintableIsInserted ==
    (/\ Handled
     /\ prev_seq = <<>>
     /\ input.res = OK
     /\ ~IsControlCode(input.key)
     /\ IsUnbound(fed))
    => /\ inserts = <<Emit("insert", "", input.key)>>
       /\ commands = <<>>
       /\ seq_ = <<>>

C3_Witness ==
    /\ Handled
    /\ prev_seq = <<>>
    /\ input = KeyCode(OK, 8364)
    /\ inserts = <<>>
    /\ Len(unbound_notices) = 1

(***************************************************************************)
(* C4: when the accumulated sequence is unbound and is longer than one     *)
(* event, or is one event that is a control code or has a status other     *)
(* than OK, handle_key clears the pending sequence, inserts nothing,       *)
(* evaluates no command, and returns a state: the state it was given with  *)
(* one "unbound key sequence" notice appended; the loop goes on.           *)
(***************************************************************************)
C4_UnboundIsOnlyANotice ==
    (/\ Handled
     /\ IsUnbound(fed)
     /\ \/ Len(fed) > 1
        \/ IsControlCode(input.key)
        \/ input.res # OK)
    => /\ seq_ = <<>>
       /\ inserts = <<>>
       /\ commands = <<>>
       /\ Len(notices) = 1
       /\ new_state = Some([state EXCEPT !.messages =
                               Append(@, message("unbound key sequence", 0))])
       /\ pc = "run_assign"

C4_Witness ==
    /\ Handled
    /\ prev_seq = <<>>
    /\ input = KeyCode(OK, 2)
    /\ new_state.some
    /\ new_state.val.messages =
           Append(state.messages, message("unbound key sequence", 0))
    /\ new_state.val.buffer = state.buffer

(***************************************************************************)
(* C9: on every exit path of a process that initialized the terminal,      *)
(* endwin runs before the process ends: the terminal is never left         *)
(* acquired at exit.                                                       *)
(***************************************************************************)
C9_TerminalReleasedAtExit ==
    pc = "exited" => term # "acquired"

\* the first draw failed inside the constructor: the process is over and
\* the terminal is still acquired
C9_Witness ==
    /\ pc = "exited"
    /\ term = "acquired"
    /\ ndraw = 0
    /\ nread = 0

(***************************************************************************)
(* C10: the event loop ends exactly when a dispatch yields no state, which *)
(* only the command of a matched chord (quit, ctrl-X ctrl-C) does; pending *)
(* steps, inserts and notices return a state and the loop goes on; when    *)
(* the loop ends run returns 0.                                            *)
(***************************************************************************)
C10_LoopEndsOnlyOnQuit ==
    /\ (pc = "run_return") <=> (Handled /\ ~new_state.some)
    /\ (Handled /\ ~new_state.some)
           => /\ out = <<Emit("command", "quit", 0)>>
              /\ fed = seq(<<ctrl(88), ctrl(67)>>)
    /\ (Handled /\ commands = <<>>) => (new_state.some /\ pc = "run_assign")
    /\ (pc = "main_return") => run_result = 0
    /\ (run_result # -1) => (run_result = 0 /\ ~new_state.some)

C10_Witness ==
    /\ pc = "main_return"
    /\ run_result = 0
    /\ ~new_state.some
    /\ nread = 2

(***************************************************************************)
(* Vocabulary of the properties of the line renderer: the line with every  *)
(* tab replaced by spaces up to the next multiple of tab_width, and the    *)
(* cells of it in the columns [first, first + num).                        *)
(***************************************************************************)
RECURSIVE Expanded(_)
Expanded(line) ==
    IF line = <<>> THEN <<>>
    ELSE LET before == Expanded(SubSeq(line, 1, Len(line) - 1))
             c      == line[Len(line)]
         IN  IF c = TAB
             THEN before \o [i \in 1..(tab_width - (Len(before) % tab_width)) |-> " "]
             ELSE Append(before, c)

Window(cells, first, num) ==
    [i \in 1..Max(0, Min(Len(cells), first + num) - first) |-> cells[first + i]]

HasTab(line) == \E i \in 1..Len(line) : line[i] = TAB

(***************************************************************************)
(* C5: for every line, first_col >= 0 and num_col >= 0, display_line_fill  *)
(* produces exactly the cells of the tab-expanded line that lie in the     *)
(* columns [first_col, first_col + num_col), in order; "a\tb" from column  *)
(* 0 over 10 columns yields 'a', 7 spaces, 'b'.                            *)
(***************************************************************************)
C5_FillIsWindowOfExpandedLine ==
    (pc = "filled") =>
        /\ str = Window(Expanded(ln), first_col, num_col)
        /\ (ln = <<"a", TAB, "b">> /\ first_col = 0 /\ num_col = 10)
               => str = <<"a", " ", " ", " ", " ", " ", " ", " ", "b">>

\* a tab that straddles both edges of the window shows only its visible part
C5_Witness ==
    /\ pc = "filled"
    /\ ln = <<"a", TAB, "b">>
    /\ first_col = 3
    /\ num_col = 2
    /\ str = <<" ", " ">>

(***************************************************************************)
(* C6: display_line_fill never emits more than num_col cells; a tab-free   *)
(* line of length L rendered from column 0 yields L cells when             *)
(* L <= num_col and num_col cells when num_col < L.                        *)
(***************************************************************************)
C6_FillNeverExceedsWidth ==
    (pc = "filled") =>
        /\ Len(str) <= num_col
        /\ (~HasTab(ln) /\ first_col = 0)
               => Len(str) = IF Len(ln) <= num_col THEN Len(ln) ELSE num_col

C6_Witness ==
    /\ pc = "filled"
    /\ ~HasTab(ln)
    /\ first_col = 0
    /\ Len(ln) = 3
    /\ num_col = 2
    /\ Len(str) = 2

(***************************************************************************)
(* Vocabulary of the properties of the drawing: the screen columns of a    *)
(* row written with the selection colour on, whether the blank fill to     *)
(* the right edge was highlighted, and the selection in screen rows.       *)
(***************************************************************************)
RECURSIVE WrittenCells(_)
\* the highlight flag of every cell written on a row, in screen order
WrittenCells(ws) ==
    IF ws = <<>> THEN <<>>
    ELSE [i \in 1..Len(Head(ws).cells) |-> Head(ws).hl] \o WrittenCells(Tail(ws))

HighlightedCols(ws) ==
    {i - 1 : i \in {j \in 1..Len(WrittenCells(ws)) : WrittenCells(ws)[j]}}

FillHighlighted(ws) == \E i \in 1..Len(ws) : ws[i].kind = "hline" /\ ws[i].hl

HasSelection == buf.selection_start # <<>>
starts == translated(buf, selected_region(buf)[1])
ends == translated(buf, selected_region(buf)[2])
TextDrawn == pc \in {"draw_text_cursor", "drawn"}

\* the columns of row r the decision table highlights, r.str being its cells
TableCols(r) ==
    LET cols == 0..(Len(r.str) - 1)
    IN  IF ~HasSelection THEN {}
        ELSE IF starts.row = r.row /\ ends.row = r.row
             THEN {c \in cols : starts.col <= c /\ c < ends.col}
        ELSE IF starts.row = r.row /\ r.row < ends.row
             THEN {c \in cols : starts.col <= c}
        ELSE IF starts.row < r.row /\ r.row = ends.row
             THEN {c \in cols : c < ends.col}
        ELSE IF starts.row < r.row /\ r.row < ends.row
             THEN cols
        ELSE {}

\* whether the decision table highlights the trailing blank fill of row r
TableFill(r) ==
    /\ HasSelection
    /\ starts.row <= r.row
    /\ r.row < ends.row

(***************************************************************************)
(* C7: with a selection translated into screen rows, draw_text highlights  *)
(* on each drawn row r the columns [starts.col, ends.col) when the         *)
(* selection starts and ends on r; from starts.col through the right edge  *)
(* with the trailing fill when it starts on r and ends later; the columns  *)
(* [0, ends.col) when it started earlier and ends on r; the whole row      *)
(* with the trailing fill when r is strictly inside; nothing otherwise or  *)
(* when there is no selection.                                             *)
(***************************************************************************)
C7_SelectionHighlight ==
    TextDrawn =>
        \A k \in 1..Len(rows) :
            /\ HighlightedCols(rows[k].writes) = TableCols(rows[k])
            /\ FillHighlighted(rows[k].writes) = TableFill(rows[k])

\* a row whose selection starts beyond its rendered cells: the highlighted
\* write reads outside the row and highlights a column left of starts.col
C7_Witness ==
    /\ TextDrawn
    /\ HasSelection
    /\ \E k \in 1..Len(rows) :
          /\ starts.row = rows[k].row
          /\ starts.col > Len(rows[k].str)
          /\ \E c \in HighlightedCols(rows[k].writes) : c < starts.col

(***************************************************************************)
(* C8: after a redraw the cursor is visible exactly when the expanded      *)
(* display cursor lies in the viewport on both axes, and it is placed at   *)
(* (row - scroll.row, col - scroll.col).                                   *)
(***************************************************************************)
InViewport(c) ==
    /\ buf.scroll.col <= c.col /\ c.col < buf.scroll.col + size.col
    /\ buf.scroll.row <= c.row /\ c.row < buf.scroll.row + size.row

C8_CursorVisibleIffInViewport ==
    (pc = "drawn") =>
        LET c == coord(buf.cursor.row,
                       Len(Expanded(SubSeq(IF buf.cursor.row < Len(buf.content)
                                           THEN buf.content[buf.cursor.row + 1]
                                           ELSE <<>>,
                                           1, buf.cursor.col))))
        IN  /\ curs.visible <=> InViewport(c)
            /\ curs.row = c.row - buf.scroll.row
            /\ curs.col = c.col - buf.scroll.col

\* a cursor behind a tab: its expanded column is right of the viewport
C8_Witness ==
    /\ pc = "drawn"
    /\ buf.cursor = coord(1, 1)
    /\ buf.scroll = coord(0, 0)
    /\ size = coord(3, 3)
    /\ curs = [row |-> 1, col |-> 8, visible |-> FALSE]

(***************************************************************************)
(* C11: with argc other than 2 the process writes the usage message to     *)
(* the error stream and exits with status 1 without loading a file,        *)
(* initializing the terminal or reading a key; with exactly one argument   *)
(* it exits with status 0 once the quit command has ended the loop.        *)
(***************************************************************************)
FileLoaded == state # None.val

C11_UsageOrQuit ==
    /\ (argc # 2) => (~FileLoaded /\ term = "none" /\ nread = 0 /\ ndraw = 0)
    /\ (argc # 2 /\ pc = "exited") => (usage /\ exit_code = 1)
    /\ (argc = 2) => ~usage
    /\ (argc = 2 /\ pc = "exited" /\ run_result = 0) => exit_code = 0
    /\ (exit_code = 0) => (argc = 2 /\ run_result = 0 /\ ~new_state.some)

C11_Witness ==
    /\ pc = "exited"
    /\ argc = 3
    /\ usage
    /\ exit_code = 1
    /\ term = "none"

(***************************************************************************)
(* C12: with one argument naming an unreadable path, startup fails before  *)
(* any rendering: the load is attempted before the terminal is             *)
(* initialized, so after a failed load the terminal is never initialized,  *)
(* nothing is drawn, no key is read and the event loop is never entered.   *)
(***************************************************************************)
C12_LoadFailsBeforeTerminal ==
    /\ (term # "none" \/ ndraw > 0 \/ nread > 0) => FileLoaded
    /\ (argc = 2 /\ pc = "exited" /\ ~FileLoaded)
           => /\ term = "none"
              /\ ndraw = 0
              /\ nread = 0
              /\ run_result = -1
              /\ exit_code # 0

C12_Witness ==
    /\ argc = 2
    /\ pc = "exited"
    /\ ~FileLoaded
    /\ term = "none"
    /\ exit_code = 134

(***************************************************************************)
(* C13: when the accumulated sequence is a strict prefix of a bound chord  *)
(* (in the map with an empty command), handle_key returns the state it     *)
(* was given unchanged, evaluates nothing, and the pending sequence is     *)
(* the previous one with the new event appended.                           *)
(***************************************************************************)
C13_PendingChangesNothing ==
    (Handled /\ IsChordPrefix(fed) /\ ~IsBound(fed))
    => /\ new_state = Some(state)
       /\ out = <<>>
       /\ seq_ = Append(prev_seq, input)

\* escape, the first event of alt-w, after a character was inserted
C13_Witness ==
    /\ Handled
    /\ prev_seq = <<>>
    /\ input = KeyCode(OK, 27)
    /\ state.messages # <<>>
    /\ new_state = Some(state)
    /\ seq_ = <<KeyCode(OK, 27)>>

(***************************************************************************)
(* C14: for every scroll row, line count n and terminal size, the lines    *)
(* draw_text iterates are [min(scroll.row, n), min(scroll.row + visible    *)
(* rows, n)), with first <= last and both within [0, n]: one row is drawn  *)
(* per line of that range, nothing past the end is indexed, and a scroll   *)
(* beyond the document draws no line rather than failing.                  *)
(***************************************************************************)
DrawTextDone == pc \in {"draw_text_cursor", "drawn", "failed"}

C14_LineRangeIsValid ==
    DrawTextDone =>
        /\ 0 <= first_ln(buf)
        /\ first_ln(buf) <= last_ln(buf, size)
        /\ last_ln(buf, size) <= Len(buf.content)
        /\ pc # "failed"
        /\ Len(rows) = last_ln(buf, size) - first_ln(buf)
        /\ (buf.scroll.row >= Len(buf.content)) => (rows = <<>>)

\* a terminal of one row: get_editor_size returns -1 rows and last_ln
\* lies before first_ln
C14_Witness ==
    /\ pc = "failed"
    /\ size.row = -1
    /\ Len(buf.content) > 0
    /\ last_ln(buf, size) < first_ln(buf)

(***************************************************************************)
(* C15: the initial state is drawn once before the first key is read;      *)
(* every key whose dispatch yields a state is followed by exactly one      *)
(* redraw of that state before the next key is read, so every read after   *)
(* the first comes right after a redraw of the state the previous key      *)
(* produced, and no key is read between a dispatch and its redraw.         *)
(***************************************************************************)
Shows(app) ==
    \E maxrow \in 1..MaxTermRows, maxcol \in 1..MaxTermCols :
        shown = draw(app, maxrow, maxcol)

C15_OneRedrawPerKey ==
    /\ (pc = "run_get_wch") => (ndraw = nread + 1 /\ Shows(state))
    /\ (pc = "run_handle_key") => (ndraw = nread /\ Shows(state))
    /\ (pc = "run_assign") => (ndraw = nread /\ new_state.some)
    /\ (pc = "run_draw") => (ndraw = nread /\ state = new_state.val)
    /\ (nread = 0 /\ ndraw = 1) => Shows(load_file)
    /\ (nread > 0) => (ndraw >= nread)

\* the second key is about to be read: the screen shows the state the first
\* key, an inserted character, produced
C15_Witness ==
    /\ pc = "run_get_wch"
    /\ nread = 1
    /\ ndraw = 2
    /\ inserts # <<>>
    /\ state = new_state.val
    /\ Shows(state)

(***************************************************************************)
(* C17: after a redraw the message row, the row immediately below the      *)
(* mode line, shows exactly the most recently appended notice; with an     *)
(* empty log nothing is drawn on the message row.                          *)
(***************************************************************************)
Redrawn ==
    /\ ndraw > 0
    /\ pc \in {"run_get_wch", "run_handle_key", "run_assign", "run_return",
               "main_return"}

C17_MessageRowShowsLastNotice ==
    Redrawn =>
        IF state.messages = <<>>
        THEN shown.message_row = <<>> /\ shown.message = <<>>
        ELSE /\ shown.message_row = <<shown.mode_line_row + 1>>
             /\ shown.message = <<state.messages[Len(state.messages)]>>

\* two different notices in the log, the later one on the screen
C17_Witness ==
    /\ Redrawn
    /\ Len(state.messages) >= 2
    /\ state.messages[1] # state.messages[Len(state.messages)]
    /\ shown.message = <<state.messages[Len(state.messages)]>>

(***************************************************************************)
(* C16: the dispatcher is deterministic in the pending sequence and the    *)
(* next key event: whatever application state is passed in and whatever    *)
(* keys came before, the same pending sequence and the same event give the *)
(* same new pending sequence and the same emitted actions.                 *)
(***************************************************************************)
\* every (new pending sequence, emitted actions) a call of handle_key can give
DispatchOutcomes(pending, ev, st) ==
    {<<handle_key(key_map_emacs, pending, st, ev.res, ev.key, cntrl).seq,
       handle_key(key_map_emacs, pending, st, ev.res, ev.key, cntrl).out>> :
         cntrl \in iscntrl_outcomes(ev.key)}

C16_DispatchIsDeterministic ==
    Handled =>
        \A st \in {state, load_file} :
            DispatchOutcomes(prev_seq, input, st) = {<<seq_, out>>}

\* the euro sign with nothing pending, after an earlier key changed the
\* state: the call reported it unbound and could as well have inserted it
C16_Witness ==
    /\ Handled
    /\ prev_seq = <<>>
    /\ input = KeyCode(OK, 8364)
    /\ state # load_file
    /\ unbound_notices # <<>>
    /\ \E o \in DispatchOutcomes(prev_seq, input, state) : o # <<seq_, out>>

(***************************************************************************)
(* C18: between calls of handle_key the pending sequence is empty or a     *)
(* non-empty strict prefix of a bound chord, so it is shorter than the     *)
(* longest bound chord; and it is empty after every call that resolved     *)
(* the sequence: a match, a mismatch or the single-character fallback.     *)
(***************************************************************************)
LongestChord ==
    CHOOSE n \in {Len(c) : c \in BoundChords} : \A c \in BoundChords : Len(c) <= n

C18_PendingIsEmptyOrPrefix ==
    /\ seq_ = <<>> \/ IsChordPrefix(seq_)
    /\ Len(seq_) < LongestChord
    /\ (Handled /\ (IsBound(fed) \/ IsUnbound(fed))) => seq_ = <<>>

\* ctrl-X was pending and the next key broke the chord
C18_Witness ==
    /\ Handled
    /\ prev_seq = ctrl(88)
    /\ IsChordPrefix(prev_seq)
    /\ IsUnbound(fed)
    /\ seq_ = <<>>

(***************************************************************************)
(* C19: on every drawn row, whatever the selection, the scroll offset and  *)
(* the length of the row, the segments draw_text writes come in the order  *)
(* unhighlighted, highlighted, unhighlighted; every slice is taken inside  *)
(* the rendered row; and the segments put together are the rendered row,   *)
(* each cell written once.                                                 *)
(***************************************************************************)
IsSlice(w) == w.kind # "hline"
Slices(ws) == SelectSeq(ws, IsSlice)

RECURSIVE Concat(_)
Concat(ws) == IF ws = <<>> THEN <<>> ELSE Head(ws).cells \o Concat(Tail(ws))

\* no unhighlighted segment between two highlighted ones
SegmentsInOrder(ws) ==
    \A i, j, l \in 1..Len(ws) :
        (i < j /\ j < l) => ~(ws[i].hl /\ ~ws[j].hl /\ ws[l].hl)

C19_SegmentsTileTheRow ==
    TextDrawn =>
        \A k \in 1..Len(rows) :
            LET ws == Slices(rows[k].writes)
            IN  /\ SegmentsInOrder(ws)
                /\ \A i \in 1..Len(ws) : ws[i].kind = "text"
                /\ Concat(ws) = rows[k].str

\* a selection inside one row that ends beyond the rendered cells of the
\* row: the segment after the selection is taken from outside the row
C19_Witness ==
    /\ TextDrawn
    /\ HasSelection
    /\ \E k \in 1..Len(rows) :
          /\ starts.row = rows[k].row
          /\ ends.row = rows[k].row
          /\ starts.col <= Len(rows[k].str)
          /\ ends.col > Len(rows[k].str)
          /\ rows[k].writes[3].kind = "garbage"

====
